---- MODULE Spec2Model ----
(***************************************************************************)
(* HyperbolicCanvas (src/src/components/HyperbolicCanvas.tsx).             *)
(*                                                                         *)
(* Two state machines share this module.                                   *)
(*                                                                         *)
(*  Spec / FairSpec : the redraw scheduler of the component's useEffect:   *)
(*      scheduleDraw, the ResizeObserver callback, the animation-frame     *)
(*      callback and the effect cleanup, driven by React (mount, change of *)
(*      params, unmount) and by the browser (resize notifications, frames).*)
(*                                                                         *)
(*  DrawSpec : one execution of draw(), split at the comments of the       *)
(*      source into its four stages (measure, sample, stroke, annotate),   *)
(*      started from every input of a bounded set of parameters and        *)
(*      viewport measurements.                                             *)
(***************************************************************************)
EXTENDS Integers, Sequences, FiniteSets, TLC

VARIABLES
    \* ---- scheduler (refs of the component and the browser's queues) ----
    mounted,     \* an effect has run and its cleanup has not
    gen,         \* number of effect runs so far; run g closes over params g
    rafRef,      \* rafRef.current : Null or a frame handle
    roRef,       \* roRef.current : Null or the observer made by effect run g
    frames,      \* browser: requested frames neither fired nor cancelled
    observers,   \* browser: observers holding observation targets
    nextHandle,  \* browser: the handle the next requestAnimationFrame returns
    drawn,       \* params generations draw() ran with in the latest frame
    resizes,     \* resize notifications delivered since the latest frame
    stale,       \* a trigger happened and no draw() with these params followed
    \* ---- one execution of draw() ----
    pc,          \* stage of draw() reached
    inp,         \* what draw() reads: params, element and window sizes, DPR
    view,        \* DPR, cssW, cssH, canvas size, FOCUS_RANGE, SCALE
    sweep,       \* the samples the loop evaluated: anomaly, radius, kept or not
    ptsAll,      \* the projected points of the trajectory
    path,        \* the canvas path calls that draw the trajectory
    anom,        \* r0s, rfs, validR0, validRf
    scene        \* the features drawn on the canvas

schedVars == <<mounted, gen, rafRef, roRef, frames, observers, nextHandle,
               drawn, resizes, stale>>
drawVars == <<pc, inp, view, sweep, ptsAll, path, anom, scene>>
vars == <<mounted, gen, rafRef, roRef, frames, observers, nextHandle,
          drawn, resizes, stale, pc, inp, view, sweep, ptsAll, path, anom,
          scene>>

(***************************************************************************)
(* Bounds of the model.                                                    *)
(***************************************************************************)
\* effect runs (mount and changes of params) in one behaviour
MaxEffectRuns == 4
\* animation frames requested in one behaviour
MaxHandle == 5
\* resize notifications counted between two frames
MaxBurst == 3

Null == 0

(***************************************************************************)
(* The scheduler.  The refs and the browser's queues are gathered in a     *)
(* record so that the cleanup and the next effect run, which React runs    *)
(* back to back, compose.                                                  *)
(***************************************************************************)
Sched ==
    [rafRef |-> rafRef, roRef |-> roRef, frames |-> frames,
     observers |-> observers, nextHandle |-> nextHandle]

\* requestAnimationFrame(cb) where cb draws with the params of effect run g
RequestFrame(s, g) ==
    [s EXCEPT !.frames = @ \cup {[h |-> s.nextHandle, g |-> g]},
              !.rafRef = s.nextHandle,
              !.nextHandle = @ + 1]

\* (mutation) scheduleDraw without its test of rafRef.current
ScheduleDrawUnguarded(s, g) == RequestFrame(s, g)

\* scheduleDraw of effect run g
ScheduleDraw(s, g) ==
    IF s.rafRef # Null THEN s ELSE RequestFrame(s, g)

\* roRef.current.disconnect(); roRef.current = null
DisconnectObserver(s) ==
    IF s.roRef # Null
    THEN [s EXCEPT !.observers = @ \ {s.roRef}, !.roRef = Null]
    ELSE s

\* (mutation) the cleanup forgets cancelAnimationFrame
CancelFrameNotCancelled(s) ==
    IF s.rafRef # Null THEN [s EXCEPT !.rafRef = Null] ELSE s

\* (mutation) the cleanup cancels the frame and leaves its handle in rafRef
CancelFrameHandleKept(s) ==
    IF s.rafRef # Null
    THEN [s EXCEPT !.frames = {f \in @ : f.h # s.rafRef}]
    ELSE s

\* cancelAnimationFrame(rafRef.current); rafRef.current = null
CancelFrame(s) ==
    IF s.rafRef # Null
    THEN [s EXCEPT !.frames = {f \in @ : f.h # s.rafRef}, !.rafRef = Null]
    ELSE s

\* the function the effect returns
Cleanup(s) == CancelFrame(DisconnectObserver(s))

\* the body of the effect, run g: scheduleDraw(), then the observer
RunEffect(s, g) ==
    LET s1 == ScheduleDraw(s, g)
        s2 == IF s1.roRef = Null THEN [s1 EXCEPT !.roRef = g] ELSE s1
    IN  [s2 EXCEPT !.observers = @ \cup {s2.roRef}]

\* the callbacks of one frame, in the order they were requested
RECURSIVE InOrder(_)
InOrder(fs) ==
    IF fs = {} THEN <<>>
    ELSE LET f == CHOOSE x \in fs : \A y \in fs : x.h <= y.h
         IN  <<f.g>> \o InOrder(fs \ {f})

Install(s) ==
    /\ rafRef' = s.rafRef
    /\ roRef' = s.roRef
    /\ frames' = s.frames
    /\ observers' = s.observers
    /\ nextHandle' = s.nextHandle

\* React mounts the component (again): the effect runs
Mount ==
    /\ ~mounted
    /\ gen < MaxEffectRuns
    /\ nextHandle <= MaxHandle
    /\ mounted' = TRUE
    /\ gen' = gen + 1
    /\ Install(RunEffect(Sched, gen + 1))
    /\ stale' = TRUE
    /\ UNCHANGED <<drawn, resizes>>
    /\ UNCHANGED drawVars

\* params changed: React runs the cleanup, then the effect with the new params
ParamsChange ==
    /\ mounted
    /\ gen < MaxEffectRuns
    /\ nextHandle <= MaxHandle
    /\ gen' = gen + 1
    /\ Install(RunEffect(Cleanup(Sched), gen + 1))
    /\ stale' = TRUE
    /\ UNCHANGED <<mounted, drawn, resizes>>
    /\ UNCHANGED drawVars

\* the component unmounts: React runs the cleanup
Unmount ==
    /\ mounted
    /\ mounted' = FALSE
    /\ Install(Cleanup(Sched))
    /\ stale' = FALSE
    /\ UNCHANGED <<gen, drawn, resizes>>
    /\ UNCHANGED drawVars

\* the browser delivers a resize notification to a connected observer, whose
\* callback is the scheduleDraw of the effect run that made it
Resize ==
    \E g \in observers :
        /\ resizes < MaxBurst
        /\ rafRef = Null => nextHandle <= MaxHandle
        /\ Install(ScheduleDraw(Sched, g))
        /\ resizes' = resizes + 1
        /\ stale' = TRUE
        /\ UNCHANGED <<mounted, gen, drawn>>
        /\ UNCHANGED drawVars

\* (mutation) the frame callback calls draw() and leaves rafRef as it was
FrameHandleNotCleared ==
    /\ frames # {}
    /\ frames' = {}
    /\ drawn' = InOrder(frames)
    /\ resizes' = 0
    /\ stale' = (stale /\ \A f \in frames : f.g # gen)
    /\ UNCHANGED <<mounted, gen, rafRef, roRef, observers, nextHandle>>
    /\ UNCHANGED drawVars

\* the browser runs an animation frame: every requested callback runs once,
\* each clears rafRef and calls the draw() of its effect run
Frame ==
    /\ frames # {}
    /\ frames' = {}
    /\ rafRef' = Null
    /\ drawn' = InOrder(frames)
    /\ resizes' = 0
    /\ stale' = (stale /\ \A f \in frames : f.g # gen)
    /\ UNCHANGED <<mounted, gen, roRef, observers, nextHandle>>
    /\ UNCHANGED drawVars

SchedInit ==
    /\ mounted = FALSE
    /\ gen = 0
    /\ rafRef = Null
    /\ roRef = Null
    /\ frames = {}
    /\ observers = {}
    /\ nextHandle = 1
    /\ drawn = <<>>
    /\ resizes = 0
    /\ stale = FALSE

DrawIdle ==
    /\ pc = "idle"
    /\ inp = <<>>
    /\ view = <<>>
    /\ sweep = <<>>
    /\ ptsAll = <<>>
    /\ path = <<>>
    /\ anom = <<>>
    /\ scene = {}

Init == SchedInit /\ DrawIdle

Next == Mount \/ ParamsChange \/ Unmount \/ Resize \/ Frame

Spec == Init /\ [][Next]_vars

\* the browser eventually runs a requested frame that is not cancelled
FairSpec == Spec /\ WF_vars(Frame)

(***************************************************************************)
(* draw().                                                                 *)
(*                                                                         *)
(* JavaScript numbers are modelled in fixed point:                         *)
(*   lengths in the world      whole kilometres;                           *)
(*   lengths on the screen     tenths of a CSS pixel (PxUnit per pixel);   *)
(*   e, cosines, sines, denom   thousandths (Q per unit);                  *)
(*   angles                    hundredths of a degree, so that deg2rad is  *)
(*                             a change of name and Math.PI is Pi.         *)
(* A radius is an extended number: finite, +Infinity, -Infinity or NaN,    *)
(* because p / denom is where draw() can leave the finite numbers.         *)
(* An optional field of params is <<>> when undefined and <<v>> otherwise. *)
(***************************************************************************)
PxUnit == 10
Q == 1000
Pi == 18000
HalfPi == 9000

Abs(x) == IF x < 0 THEN -x ELSE x
Min2(a, b) == IF a <= b THEN a ELSE b
Max2(a, b) == IF a >= b THEN a ELSE b

\* a / b rounded toward zero
TruncDiv(a, b) ==
    IF (a >= 0) = (b > 0) THEN Abs(a) \div Abs(b) ELSE -(Abs(a) \div Abs(b))

\* floor(a * b / c) for c > 0, without forming a * b
MulDiv(a, b, c) == (a \div c) * b + ((a % c) * b) \div c

\* Math.cos, by Bhaskara's rational approximation, in thousandths
CosCore(x) ==
    LET n1 == (324000000 - 4 * x * x) \div 1000
        d1 == (324000000 + x * x) \div 1000
    IN  (n1 * Q + d1 \div 2) \div d1

Cos(a) ==
    LET w == ((a + Pi) % (2 * Pi)) - Pi
        m == Abs(w)
    IN  IF m <= HalfPi THEN CosCore(m) ELSE -CosCore(Pi - m)

\* Math.sin
Sin(a) == Cos(a - HalfPi)

\* function deg2rad(d)
Deg2Rad(d) == d

\* extended numbers
Fin(v) == [k |-> "fin", v |-> v]
PosInf == [k |-> "inf", v |-> 1]
NegInf == [k |-> "inf", v |-> -1]
NaN == [k |-> "nan", v |-> 0]

\* isFinite(r)
IsFinite(r) == r.k = "fin"

\* Math.abs(r)
FAbs(r) ==
    IF r.k = "fin" THEN Fin(Abs(r.v))
    ELSE IF r.k = "inf" THEN PosInf
    ELSE NaN

\* r > c and r <= c for a finite c: both are false of NaN
FGreater(r, c) ==
    IF r.k = "fin" THEN r.v > c ELSE r.k = "inf" /\ r.v > 0

FLeq(r, c) ==
    IF r.k = "fin" THEN r.v <= c ELSE r.k = "inf" /\ r.v < 0

\* p / denom, with denom in thousandths
FDiv(p, denom) ==
    IF denom = 0
    THEN (IF p = 0 THEN NaN ELSE IF p > 0 THEN PosInf ELSE NegInf)
    ELSE Fin(TruncDiv(p * Q, denom))

\* x ?? dflt
OrElse(opt, dflt) == IF opt = <<>> THEN dflt ELSE opt[1]

(***************************************************************************)
(* Stage 1: element size, canvas buffer, focus range and scale.            *)
(***************************************************************************)
MinCss == 200
MinBuffer == 300
FallbackW == 800
FallbackH == 600
NarrowBelow == 480
MinNarrowFocus == 3000
DefaultFocus == 15000
DefaultSamples == 1000

\* const DPR = window.devicePixelRatio || 1, a fraction <<n, d>>
DprOf(in) == IF in.dpr[1] = 0 THEN <<1, 1>> ELSE in.dpr

\* let cssW = rect.width || Math.min(window.innerWidth, 800), then the minimum
CssW(in) ==
    Max2(MinCss * PxUnit,
         IF in.rectW # 0 THEN in.rectW
         ELSE Min2(in.innerW, FallbackW * PxUnit))

\* let cssH = rect.height || Math.min(window.innerHeight * 0.6, 600), then the
\* minimum
CssH(in) ==
    Max2(MinCss * PxUnit,
         IF in.rectH # 0 THEN in.rectH
         ELSE Min2((in.innerH * 6) \div 10, FallbackH * PxUnit))

\* canvas.width = Math.max(300, Math.floor(cssW * DPR)), in device pixels
BufferSize(css, dpr) ==
    Max2(MinBuffer, (css * dpr[1]) \div (dpr[2] * PxUnit))

\* const canvasW = canvas.width / DPR
CanvasDim(css, dpr) ==
    (BufferSize(css, dpr) * dpr[2] * PxUnit) \div dpr[1]

\* const FOCUS_RANGE = isNarrow ? Math.max(3000, baseFocus * 0.25) : baseFocus
FocusRange(in) ==
    LET baseFocus == OrElse(in.focusRange, DefaultFocus)
        isNarrow == CssW(in) < NarrowBelow * PxUnit
    IN  IF isNarrow
        THEN Max2(MinNarrowFocus, (baseFocus * 25) \div 100)
        ELSE baseFocus

\* everything draw() computes before the trajectory; SCALE is the fraction
\* scaleN / scaleD, in tenths of a pixel per kilometre
ViewOf(in) ==
    LET dpr == DprOf(in)
        w == CanvasDim(CssW(in), dpr)
        h == CanvasDim(CssH(in), dpr)
        f == FocusRange(in)
    IN  [dpr |-> dpr, cssW |-> CssW(in), cssH |-> CssH(in),
         bufW |-> BufferSize(CssW(in), dpr),
         bufH |-> BufferSize(CssH(in), dpr),
         canvasW |-> w, canvasH |-> h, focus |-> f,
         scaleN |-> Min2(w, h), scaleD |-> 2 * f]

\* const toCanvas = (x, y) => [canvasW / 2 + x * SCALE, canvasH / 2 - y * SCALE]
ToCanvas(v, x, y) ==
    <<v.canvasW \div 2 + MulDiv(x, v.scaleN, v.scaleD),
      v.canvasH \div 2 - MulDiv(y, v.scaleN, v.scaleD)>>

(***************************************************************************)
(* Stage 2: the trajectory sampling loop.                                  *)
(***************************************************************************)
SweepStart == -17990
SweepSpan == 35980
ClipFloor == 1000000

\* const rClip = Math.max(FOCUS_RANGE * 3, p * 3, 1e6)
RClip(in, v) == Max2(Max2(v.focus * 3, in.p * 3), ClipFloor)

\* (mutation) the sweep divides by samples, and stops short of 179.9
NuAtShort(i, samples) ==
    Deg2Rad(SweepStart + (SweepSpan * i) \div Max2(1, samples))

\* const nu = deg2rad(-179.9 + (359.8 * i) / Math.max(1, samples - 1))
NuAt(i, samples) ==
    Deg2Rad(SweepStart + (SweepSpan * i) \div Max2(1, samples - 1))

\* const denom = 1 + e * Math.cos(nu)
Denom(in, nu) == Q + (in.e * Cos(nu)) \div Q

\* (mutation) the direct branch is taken only for denom > 1
PolarInlineAboveOne(in, nu) ==
    LET denom == Denom(in, nu)
        omega == Deg2Rad(in.omega)
    IN  IF denom > Q
        THEN [r |-> FDiv(in.p, denom), theta |-> nu + omega]
        ELSE [r |-> FAbs(FDiv(in.p, denom)), theta |-> nu + omega + Pi]

\* the evaluation written in the loop: r and theta of the anomaly nu
PolarInline(in, nu) ==
    LET denom == Denom(in, nu)
        omega == Deg2Rad(in.omega)
    IN  IF denom > 0
        THEN [r |-> FDiv(in.p, denom), theta |-> nu + omega]
        ELSE [r |-> FAbs(FDiv(in.p, denom)), theta |-> nu + omega + Pi]

\* (mutation) the clip test compares with rClip only
ClippedNoFiniteTest(r, rClip) == FGreater(r, rClip)

\* if (!isFinite(r) || r > rClip) continue
Clipped(r, rClip) == ~IsFinite(r) \/ FGreater(r, rClip)

\* one iteration, as far as the clip test
SampleAt(in, v, i) ==
    LET nu == NuAt(i, OrElse(in.samples, DefaultSamples))
        pol == PolarInline(in, nu)
    IN  [nu |-> nu, r |-> pol.r, theta |-> pol.theta,
         kept |-> ~Clipped(pol.r, RClip(in, v))]

\* the iterations i = 0 .. samples - 1, in order
SweepOf(in, v) ==
    LET n == Max2(0, OrElse(in.samples, DefaultSamples))
    IN  [k \in 1..n |-> SampleAt(in, v, k - 1)]

\* x = r * Math.cos(theta), y = r * Math.sin(theta), toCanvas(x, y)
ProjectPolar(v, r, theta) ==
    ToCanvas(v, MulDiv(r, Cos(theta), Q), MulDiv(r, Sin(theta), Q))

\* ptsAll.push(toCanvas(x, y)) for the samples the clip test let through
RECURSIVE PointsOf(_, _, _)
PointsOf(v, sw, k) ==
    IF k > Len(sw) THEN <<>>
    ELSE IF sw[k].kept
         THEN <<ProjectPolar(v, sw[k].r.v, sw[k].theta)>>
              \o PointsOf(v, sw, k + 1)
         ELSE PointsOf(v, sw, k + 1)

(***************************************************************************)
(* Stage 3: the trajectory drawn as subpaths.                              *)
(***************************************************************************)
MinGap == 20

\* const maxGapPx = Math.max(20, Math.min(canvasW, canvasH) * 0.06)
MaxGapPx(v) == Max2(MinGap * PxUnit, (Min2(v.canvasW, v.canvasH) * 6) \div 100)

\* (mutation) the distance is taken along x only
GapExceededAlongX(a, b, gap) == Abs(a[1] - b[1]) > gap

\* Math.hypot(x - prevX, y - prevY) > maxGapPx
GapExceeded(a, b, gap) ==
    LET dx == Abs(a[1] - b[1])
        dy == Abs(a[2] - b[2])
    IN  dx > gap \/ dy > gap \/ dx * dx + dy * dy > gap * gap

MoveTo(pt) == [op |-> "moveTo", pt |-> pt]
LineTo(pt) == [op |-> "lineTo", pt |-> pt]
Stroke == [op |-> "stroke", pt |-> <<0, 0>>]
BeginPath == [op |-> "beginPath", pt |-> <<0, 0>>]

\* (mutation) a point beyond the gap ends the subpath and is not drawn
RECURSIVE StrokeLoopDropsGapPoint(_, _, _, _, _)
StrokeLoopDropsGapPoint(pts, i, started, prev, gap) ==
    IF i > Len(pts) THEN <<>>
    ELSE IF ~started
         THEN <<MoveTo(pts[i])>>
              \o StrokeLoopDropsGapPoint(pts, i + 1, TRUE, pts[i], gap)
         ELSE IF GapExceeded(pts[i], prev, gap)
              THEN <<Stroke, BeginPath>>
                   \o StrokeLoopDropsGapPoint(pts, i + 1, FALSE, pts[i], gap)
              ELSE <<LineTo(pts[i])>>
                   \o StrokeLoopDropsGapPoint(pts, i + 1, TRUE, pts[i], gap)

\* the loop over ptsAll: started, prevX and prevY are its locals
RECURSIVE StrokeLoop(_, _, _, _, _)
StrokeLoop(pts, i, started, prev, gap) ==
    IF i > Len(pts) THEN <<>>
    ELSE IF ~started
         THEN <<MoveTo(pts[i])>> \o StrokeLoop(pts, i + 1, TRUE, pts[i], gap)
         ELSE IF GapExceeded(pts[i], prev, gap)
              THEN <<Stroke, BeginPath, MoveTo(pts[i])>>
                   \o StrokeLoop(pts, i + 1, TRUE, pts[i], gap)
              ELSE <<LineTo(pts[i])>>
                   \o StrokeLoop(pts, i + 1, TRUE, pts[i], gap)

\* if (ptsAll.length > 0) { beginPath; the loop; stroke }
PathOf(v, pts) ==
    IF Len(pts) > 0
    THEN <<BeginPath>> \o StrokeLoop(pts, 1, FALSE, <<0, 0>>, MaxGapPx(v))
         \o <<Stroke>>
    ELSE <<>>

(***************************************************************************)
(* Stage 4: Earth, the two anomaly points, perigee, apse line, arcs, axes. *)
(* A feature is in the scene when its canvas calls are made with finite    *)
(* arguments (the canvas ignores a call that has a non-finite argument).   *)
(***************************************************************************)
OmegaArcKm == 3500

\* (mutation) safePolar reflects only for denom < 0
SafePolarBelowZero(in, nu) ==
    LET denom == Denom(in, nu)
        r == FDiv(in.p, denom)
        theta == nu + Deg2Rad(in.omega)
    IN  IF denom < 0
        THEN [r |-> FAbs(r), theta |-> theta + Pi]
        ELSE [r |-> r, theta |-> theta]

\* const safePolar = (nu) => ...
SafePolar(in, nu) ==
    LET denom == Denom(in, nu)
        r == FDiv(in.p, denom)
        theta == nu + Deg2Rad(in.omega)
    IN  IF ~(denom > 0)
        THEN [r |-> FAbs(r), theta |-> theta + Pi]
        ELSE [r |-> r, theta |-> theta]

\* const validR0 = isFinite(r0s.r) && r0s.r <= rClip
ValidPolar(pol, rClip) == IsFinite(pol.r) /\ FLeq(pol.r, rClip)

\* r0s, rfs, validR0, validRf
AnomOf(in, v) ==
    LET r0s == SafePolar(in, Deg2Rad(in.nu0))
        rfs == SafePolar(in, Deg2Rad(in.nuf))
    IN  [r0s |-> r0s, rfs |-> rfs,
         validR0 |-> ValidPolar(r0s, RClip(in, v)),
         validRf |-> ValidPolar(rfs, RClip(in, v))]

\* Math.max(Math.abs(r0s.r), Math.abs(rfs.r)) * 1.15
ArcRWorld(a) ==
    IF a.r0s.r.k = "nan" \/ a.rfs.r.k = "nan" THEN NaN
    ELSE IF a.r0s.r.k = "inf" \/ a.rfs.r.k = "inf" THEN PosInf
    ELSE Fin(MulDiv(Max2(Abs(a.r0s.r.v), Abs(a.rfs.r.v)), 115, 100))

\* safeArc's test of radius = world * SCALE: isFinite(radius) && radius > 1e-6
\* (1e-6 pixel is below the resolution of the model: a whole kilometre at a
\* positive scale is above it)
SafeArcDraws(world, v) ==
    IsFinite(world) /\ world.v > 0 /\ v.scaleN > 0 /\ v.scaleD > 0

\* markers, position arrows, velocity vectors and the r0 / v0 labels
AnomalyFeatures(a) ==
    (IF a.validR0 THEN {"marker0", "arrow0", "velocity0", "labels0"} ELSE {})
    \cup (IF a.validRf THEN {"markerF", "arrowF", "velocityF"} ELSE {})

\* (mutation) the perigee is drawn without the test r_perigee > 0
PerigeeNoSignTest(in, v) ==
    LET r_perigee == FDiv(in.p, Q + in.e)
    IN  IF IsFinite(r_perigee) /\ FLeq(r_perigee, RClip(in, v))
        THEN {"perigee"} ELSE {}

\* const r_perigee = p / (1 + e), drawn if finite, > 0 and <= rClip
PerigeeFeatures(in, v) ==
    LET r_perigee == FDiv(in.p, Q + in.e)
    IN  IF IsFinite(r_perigee) /\ r_perigee.v > 0
           /\ FLeq(r_perigee, RClip(in, v))
        THEN {"perigee"} ELSE {}

\* the dashed apse line and its label, the omega arc and its label
ApseFeatures(v) ==
    {"apseLine", "omegaLabel"}
    \cup (IF SafeArcDraws(Fin(OmegaArcKm), v) THEN {"omegaArc"} ELSE {})

\* the arc swept between the two anomalies and its "120" label
SweepFeatures(a, v) ==
    (IF SafeArcDraws(ArcRWorld(a), v) THEN {"sweepArc"} ELSE {})
    \cup (IF IsFinite(ArcRWorld(a)) THEN {"sweepLabel"} ELSE {})

\* the features of the scene that read r0s, and those that read rfs
ReadsR0 == {"marker0", "arrow0", "velocity0", "labels0", "sweepArc",
            "sweepLabel"}
ReadsRf == {"markerF", "arrowF", "velocityF", "sweepArc", "sweepLabel"}

(***************************************************************************)
(* One execution of draw(), stage by stage.                                *)
(***************************************************************************)
Measure ==
    /\ pc = "start"
    /\ pc' = "measured"
    /\ view' = ViewOf(inp)
    /\ scene' = {"background", "referenceCircle"}
    /\ UNCHANGED <<inp, sweep, ptsAll, path, anom>>
    /\ UNCHANGED schedVars

Sample ==
    /\ pc = "measured"
    /\ pc' = "sampled"
    /\ sweep' = SweepOf(inp, view)
    /\ ptsAll' = PointsOf(view, SweepOf(inp, view), 1)
    /\ UNCHANGED <<inp, view, path, anom, scene>>
    /\ UNCHANGED schedVars

StrokePath ==
    /\ pc = "sampled"
    /\ pc' = "stroked"
    /\ path' = PathOf(view, ptsAll)
    /\ scene' = scene \cup (IF Len(ptsAll) > 0 THEN {"trajectory"} ELSE {})
    /\ UNCHANGED <<inp, view, sweep, ptsAll, anom>>
    /\ UNCHANGED schedVars

Annotate ==
    /\ pc = "stroked"
    /\ pc' = "done"
    /\ anom' = AnomOf(inp, view)
    /\ scene' = scene \cup {"earth", "axes"}
                 \cup AnomalyFeatures(AnomOf(inp, view))
                 \cup PerigeeFeatures(inp, view)
                 \cup ApseFeatures(view)
                 \cup SweepFeatures(AnomOf(inp, view), view)
    /\ UNCHANGED <<inp, view, sweep, ptsAll, path>>
    /\ UNCHANGED schedVars

(***************************************************************************)
(* The inputs draw() is started from.                                      *)
(***************************************************************************)
\* largest samples value of the inputs.  Every input gives samples, as the
\* dashboard does: the default of 1000 samples is beyond what is enumerated.
MaxSamples == 4

EVals == {0, 500, 1000, 1010, 1056, 2000, 3000}
PVals == {0, 1000, 14247, 400000}
OmegaVals == {0, 3162}
Nu0Vals == {-7139, 0, 17990}
NufVals == {4861, -17990, 18000}
FocusVals == {<<5000>>, <<15000>>, <<>>}
RectWVals == {0, 1500, 2000, 3337, 4800, 6000, 10000}
RectHVals == {0, 1500, 4000}
InnerWVals == {1800, 12800}
InnerHVals == {3000, 7200}
DprVals == {<<0, 1>>, <<1, 2>>, <<1, 1>>, <<5, 4>>, <<3, 2>>, <<25, 16>>,
            <<2, 1>>}

\* every orbit and sample count, on a narrow and on a wide viewport
TrajectoryInputs ==
    [e : EVals, p : PVals, omega : OmegaVals, nu0 : {-7139}, nuf : {4861},
     samples : {<<n>> : n \in 0..MaxSamples}, focusRange : FocusVals,
     rectW : {3200, 6000}, rectH : {4000}, innerW : {12800},
     innerH : {7200}, dpr : {<<1, 1>>}]

\* every orbit with every pair of anomalies
FeatureInputs ==
    [e : EVals, p : PVals, omega : OmegaVals, nu0 : Nu0Vals, nuf : NufVals,
     samples : {<<2>>}, focusRange : {<<15000>>},
     rectW : {6000}, rectH : {4000}, innerW : {12800},
     innerH : {7200}, dpr : {<<1, 1>>}]

\* the dashboard's orbit on every viewport and pixel density
ViewInputs ==
    [e : {1056}, p : {14247}, omega : {3162}, nu0 : {-7139}, nuf : {4861},
     samples : {<<2>>}, focusRange : FocusVals,
     rectW : RectWVals, rectH : RectHVals, innerW : InnerWVals,
     innerH : InnerHVals, dpr : DprVals]

\* parameters outside the ranges of the sliders: e <= -1 and -1 < e < 0, p < 0
OutOfRangeInputs ==
    [e : {-2000, -1000, -900}, p : {-1000, 1000, 400000}, omega : OmegaVals,
     nu0 : {-7139, 0}, nuf : {4861},
     samples : {<<2>>}, focusRange : {<<15000>>},
     rectW : {6000}, rectH : {4000}, innerW : {12800},
     innerH : {7200}, dpr : {<<1, 1>>}]

Inputs ==
    TrajectoryInputs \cup FeatureInputs \cup ViewInputs \cup OutOfRangeInputs

DrawInit ==
    /\ SchedInit
    /\ pc = "start"
    /\ inp \in Inputs
    /\ view = <<>>
    /\ sweep = <<>>
    /\ ptsAll = <<>>
    /\ path = <<>>
    /\ anom = <<>>
    /\ scene = {}

DrawNext == Measure \/ Sample \/ StrokePath \/ Annotate

DrawSpec == DrawInit /\ [][DrawNext]_vars

(***************************************************************************)
(* Claims about the scheduler.                                             *)
(***************************************************************************)

\* C1 Redraw coalescing: at most one requested frame is outstanding at any
\* time, a scheduleDraw call (the effect's or an observer's) made while a
\* frame is outstanding requests no further frame, and no animation frame
\* runs more than one draw(), however many resize notifications came before.
C1_RedrawCoalescing ==
    /\ [](Cardinality(frames) <= 1 /\ Len(drawn) <= 1)
    /\ [][(Mount \/ Resize) /\ frames # {}
            => frames' = frames /\ nextHandle' = nextHandle]_vars

\* C1 witness: after an earlier frame drew, a burst of resize notifications
\* arrived and a single frame is outstanding.
C1_Witness_BurstOneFrame ==
    /\ drawn # <<>>
    /\ resizes >= 2
    /\ Cardinality(frames) = 1

\* C2 Last-write-wins and cancellation: every outstanding frame was requested
\* by the most recent effect run of a mounted component (so a frame of older
\* params or of an unmounted component never runs), and every draw() a frame
\* runs uses the params of the most recent effect run, while mounted.
C2_LastWriteWins ==
    /\ [](\A f \in frames : mounted /\ f.g = gen)
    /\ [][Frame => mounted /\ \A i \in DOMAIN drawn' : drawn'[i] = gen]_vars

\* C2 witness: two frames were requested, the first under older params; the
\* only draw() that ran used the params of the second effect run.
C2_Witness_OldFrameCancelled ==
    /\ gen = 2
    /\ nextHandle = 3
    /\ drawn = <<2>>
    /\ frames = {}

\* C3 No trigger is lost: whenever a mounted component owes a draw (its params
\* changed or a resize was notified), a frame of the most recent effect run
\* is outstanding, and a draw() with those params follows unless the
\* component unmounts first.
C3_NoTriggerLost ==
    /\ [](stale => \E f \in frames : f.g = gen)
    /\ (stale ~> ~stale)

\* C3 witness: params changed and the draw() owed since has run with them.
C3_Witness_DrawnAfterChange ==
    /\ mounted
    /\ gen >= 2
    /\ ~stale
    /\ drawn = <<gen>>

(***************************************************************************)
(* Claims about draw().                                                    *)
(***************************************************************************)

\* the canvas calls of the trajectory that carry a point, in order
PointOps(ops) == SelectSeq(ops, LAMBDA o : o.op \in {"moveTo", "lineTo"})

\* the number of points of each subpath of the trajectory, in order
RECURSIVE SegmentLengthsFrom(_, _)
SegmentLengthsFrom(ops, acc) ==
    IF ops = <<>> THEN acc
    ELSE IF Head(ops).op = "moveTo"
         THEN SegmentLengthsFrom(Tail(ops), Append(acc, 1))
         ELSE IF Head(ops).op = "lineTo"
              THEN SegmentLengthsFrom(Tail(ops),
                                      [acc EXCEPT ![Len(acc)] = @ + 1])
              ELSE SegmentLengthsFrom(Tail(ops), acc)

SegmentLengths(ops) == SegmentLengthsFrom(ops, <<>>)

\* the screen distance of a and b is more than gap (tenths of a pixel)
FartherThan(a, b, gap) ==
    LET dx == Abs(a[1] - b[1])
        dy == Abs(a[2] - b[2])
    IN  dx > gap \/ dy > gap \/ dx * dx + dy * dy > gap * gap

\* C4 Segment Builder invariant: with maxGapPx = max(20, min(canvasW,
\* canvasH) * 0.06), every point joined to its predecessor by lineTo is at
\* screen distance <= maxGapPx from it, and every point farther than maxGapPx
\* from its predecessor starts a new subpath with moveTo.
C4_SegmentGap ==
    pc \in {"stroked", "done"} =>
        LET ops == PointOps(path)
            gap == Max2(20 * PxUnit,
                        (Min2(view.canvasW, view.canvasH) * 6) \div 100)
        IN  /\ Len(ops) = Len(ptsAll)
            /\ \A i \in 1..Len(ops) : ops[i].pt = ptsAll[i]
            /\ \A i \in 2..Len(ops) :
                /\ ops[i].op = "lineTo"
                     => ~FartherThan(ptsAll[i - 1], ptsAll[i], gap)
                /\ FartherThan(ptsAll[i - 1], ptsAll[i], gap)
                     => ops[i].op = "moveTo"

\* C4 witness: a trajectory in which one point was joined to a different
\* point before it and another point started a new subpath.
C4_Witness_JoinAndBreak ==
    /\ pc = "stroked"
    /\ \E i \in 2..Len(ptsAll) :
        PointOps(path)[i].op = "lineTo" /\ ptsAll[i] # ptsAll[i - 1]
    /\ \E i \in 2..Len(ptsAll) : PointOps(path)[i].op = "moveTo"

\* C5 Clip invariant: with rClip = max(FOCUS_RANGE * 3, p * 3, 1e6), a sample
\* is kept exactly when its radius is finite and <= rClip; the point list has
\* one point per kept sample and the path draws those points only.
C5_ClipInvariant ==
    pc \in {"sampled", "stroked", "done"} =>
        LET rClip == Max2(Max2(view.focus * 3, inp.p * 3), 1000000)
            keptIx == {k \in DOMAIN sweep : sweep[k].kept}
        IN  /\ \A k \in DOMAIN sweep :
                sweep[k].kept <=>
                    (sweep[k].r.k = "fin" /\ sweep[k].r.v <= rClip)
            /\ Len(ptsAll) = Cardinality(keptIx)
            /\ pc # "sampled" => Len(PointOps(path)) = Cardinality(keptIx)

\* C5 witness: a sweep with a kept sample, a sample dropped for a radius that
\* is not finite, and one dropped for a finite radius above rClip.
C5_Witness_KeptAndDropped ==
    /\ pc = "sampled"
    /\ \E k \in DOMAIN sweep : sweep[k].kept
    /\ \E k \in DOMAIN sweep : sweep[k].r.k # "fin"

\* C6 Validity propagation (as claimed): when the point of nu0 is invalid
\* nothing of the scene that reads it is drawn, and the same for nuf.
C6_ValidityPropagation ==
    pc = "done" =>
        /\ ~anom.validR0 => scene \cap ReadsR0 = {}
        /\ ~anom.validRf => scene \cap ReadsRf = {}

\* world points the projection is compared on
ProbePoints == {<<0, 0>>, <<10000, 0>>, <<-7000, 12000>>}

\* C7 Pixel density (as claimed): a draw that differs from this one in
\* devicePixelRatio only computes the same canvasW, canvasH and SCALE, and
\* projects every world point to the same place.
C7_DensityIndependent ==
    pc # "start" =>
        \A d \in DprVals :
            LET other == ViewOf([inp EXCEPT !.dpr = d])
            IN  /\ other.canvasW = view.canvasW
                /\ other.canvasH = view.canvasH
                /\ other.scaleN * view.scaleD = view.scaleN * other.scaleD
                /\ \A w \in ProbePoints :
                    ToCanvas(other, w[1], w[2]) = ToCanvas(view, w[1], w[2])

\* C8 Narrow viewport (as claimed): the effective focus range is
\* max(3000, focusRange * 0.25) exactly when canvasW < 480 and focusRange
\* otherwise, SCALE = min(canvasW, canvasH) / (2 * effective focus range),
\* and toCanvas(x, y) = (canvasW / 2 + x * SCALE, canvasH / 2 - y * SCALE).
C8_NarrowAdaptation ==
    pc # "start" =>
        LET base == OrElse(inp.focusRange, 15000)
            eff == IF view.canvasW < 480 * PxUnit
                   THEN Max2(3000, (base * 25) \div 100)
                   ELSE base
        IN  /\ view.focus = eff
            /\ view.scaleN = Min2(view.canvasW, view.canvasH)
            /\ view.scaleD = 2 * eff
            /\ \A w \in ProbePoints :
                ToCanvas(view, w[1], w[2])
                    = <<view.canvasW \div 2
                          + MulDiv(w[1], view.scaleN, 2 * eff),
                        view.canvasH \div 2
                          - MulDiv(w[2], view.scaleN, 2 * eff)>>

\* C9 Degenerate viewport (as claimed): whatever the element measures, the
\* width and the height SCALE is computed from are at least 200, and SCALE is
\* finite and positive.
C9_DegenerateViewport ==
    pc # "start" =>
        /\ view.canvasW >= 200 * PxUnit
        /\ view.canvasH >= 200 * PxUnit
        /\ view.scaleN > 0
        /\ view.scaleD > 0

\* the k-th kept sample of the sweep, counting from the sample at index from
RECURSIVE NthKept(_, _, _)
NthKept(sw, from, k) ==
    IF sw[from].kept
    THEN (IF k = 1 THEN from ELSE NthKept(sw, from + 1, k - 1))
    ELSE NthKept(sw, from + 1, k)

\* what C10 says of every sample count n >= 2
SweepShape(n) ==
    /\ Len(sweep) = n
    /\ \A k \in 1..n :
        (n - 1) * (sweep[k].nu + 17990) <= 35980 * (k - 1)
        /\ 35980 * (k - 1) < (n - 1) * (sweep[k].nu + 17990 + 1)
    /\ \A k \in 1..(n - 1) : sweep[k].nu < sweep[k + 1].nu
    /\ sweep[1].nu = -17990
    /\ sweep[n].nu = 17990
    /\ Len(ptsAll) <= n
    /\ Len(ptsAll) = Cardinality({k \in 1..n : sweep[k].kept})
    /\ \A j \in 1..Len(ptsAll) :
        LET k == NthKept(sweep, 1, j)
        IN  ptsAll[j] = ProjectPolar(view, sweep[k].r.v, sweep[k].theta)

\* C10 Sampler sweep (as claimed): n >= 2 samples are evaluated at
\* -179.9 + 359.8 * i / (n - 1) degrees, in increasing order from -179.9 to
\* 179.9, the kept points stay in that order, and for n = 2 the trajectory is
\* one subpath of 2 points or two subpaths of 1 point.  (Stated for p > 0,
\* which the data model requires.)
C10_SamplerSweep_AsClaimed ==
    (pc = "done" /\ inp.samples # <<>> /\ inp.samples[1] >= 2 /\ inp.p > 0) =>
        /\ SweepShape(inp.samples[1])
        /\ inp.samples[1] = 2
             => SegmentLengths(path) \in {<<2>>, <<1, 1>>}

\* C10 (amended): as claimed, except that for n = 2 the trajectory is one
\* subpath of 2 points, two subpaths of 1 point, or no subpath at all, the
\* last exactly when both endpoints are dropped by the clip test.
C10_SamplerSweep ==
    (pc = "done" /\ inp.samples # <<>> /\ inp.samples[1] >= 2) =>
        /\ SweepShape(inp.samples[1])
        /\ inp.samples[1] = 2
             => /\ SegmentLengths(path) \in {<<2>>, <<1, 1>>, <<>>}
                /\ SegmentLengths(path) = <<>>
                     <=> (~sweep[1].kept /\ ~sweep[2].kept)

\* C10 witness: two samples, both kept, too far apart to be joined.
C10_Witness_TwoEndpoints ==
    /\ pc = "done"
    /\ inp.samples = <<2>>
    /\ sweep[1].kept /\ sweep[2].kept
    /\ SegmentLengths(path) = <<1, 1>>

\* C11: circular limit.  With e = 0 and p > 0 every sample of the sweep has
\* denom = 1, takes the direct branch (heading nu + omega), has radius p, and
\* passes the clip test because p <= rClip; all sampleCount samples are
\* retained as points.
C11_CircularLimit ==
    (pc \in {"sampled", "stroked", "done"} /\ inp.e = 0 /\ inp.p > 0)
    => LET n == Max2(0, OrElse(inp.samples, DefaultSamples))
       IN  /\ Len(sweep) = n
           /\ inp.p <= RClip(inp, view)
           /\ \A k \in 1..n :
                 /\ Denom(inp, sweep[k].nu) = Q
                 /\ sweep[k].theta = sweep[k].nu + Deg2Rad(inp.omega)
                 /\ sweep[k].r = Fin(inp.p)
                 /\ sweep[k].kept
           /\ Len(ptsAll) = n

\* a circle with 3p above the clip floor, sampled four times, all retained
C11_Witness_CircleAllKept ==
    /\ pc = "sampled"
    /\ inp.e = 0
    /\ inp.p * 3 > ClipFloor
    /\ inp.samples = <<MaxSamples>>
    /\ Len(ptsAll) = MaxSamples

EvaluatedAnomalies ==
    {sweep[k].nu : k \in 1..Len(sweep)}
    \cup {Deg2Rad(inp.nu0), Deg2Rad(inp.nuf)}

OpsAt(ops, op) == {i \in 1..Len(ops) : ops[i].op = op}

\* the sum of a sequence of numbers
RECURSIVE SumSeq(_)
SumSeq(q) == IF q = <<>> THEN 0 ELSE Head(q) + SumSeq(Tail(q))

\* C14: segment partition.  The points carried by the subpaths, in order, are
\* exactly the points of ptsAll: none dropped, duplicated or reordered.  Every
\* subpath opened by beginPath starts with a moveTo and is closed by one
\* stroke, so it has at least one point; for a non-empty ptsAll the number of
\* subpaths is 1 plus the number of consecutive pairs farther apart than
\* maxGapPx; an empty ptsAll gives no canvas call at all.
C14_SegmentPartition ==
    pc \in {"stroked", "done"} =>
        LET gap == Max2(20 * PxUnit,
                        (Min2(view.canvasW, view.canvasH) * 6) \div 100)
            breaks == {i \in 2..Len(ptsAll) :
                          FartherThan(ptsAll[i - 1], ptsAll[i], gap)}
            lens == SegmentLengths(path)
        IN  /\ [i \in 1..Len(PointOps(path)) |-> PointOps(path)[i].pt]
                  = ptsAll
            /\ \A i \in OpsAt(path, "beginPath") :
                  i < Len(path) /\ path[i + 1].op = "moveTo"
            /\ \A i \in OpsAt(path, "moveTo") :
                  i > 1 /\ path[i - 1].op = "beginPath"
            /\ \A i \in OpsAt(path, "stroke") :
                  i > 1 /\ path[i - 1].op \in {"moveTo", "lineTo"}
            /\ Cardinality(OpsAt(path, "stroke"))
                  = Cardinality(OpsAt(path, "beginPath"))
            /\ Len(lens) = Cardinality(OpsAt(path, "beginPath"))
            /\ \A j \in 1..Len(lens) : lens[j] >= 1
            /\ SumSeq(lens) = Len(ptsAll)
            /\ Len(ptsAll) > 0 => Len(lens) = 1 + Cardinality(breaks)
            /\ Len(ptsAll) = 0 => path = <<>>

\* four points drawn as more than one subpath, one of them of several points
C14_Witness_SeveralSubpaths ==
    /\ pc = "stroked"
    /\ Len(ptsAll) = MaxSamples
    /\ Len(SegmentLengths(path)) >= 2
    /\ \E j \in 1..Len(SegmentLengths(path)) : SegmentLengths(path)[j] >= 2

\* C15: scheduler state consistency.  In every reachable state rafRef is
\* non-null exactly when one requested frame is neither fired nor cancelled,
\* and that frame is the one rafRef names; running the cleanup from any
\* reachable state leaves rafRef null, no frame outstanding and no observer
\* connected, and an unmounted component holds no scheduler state.  A frame
\* callback leaves rafRef null and has run draw(); the cleanup of an unmount
\* leaves rafRef and roRef null.
C15_SchedulerConsistency ==
    /\ [](/\ (rafRef # Null) <=> (Cardinality(frames) = 1)
          /\ rafRef = Null => frames = {}
          /\ rafRef # Null => \A f \in frames : f.h = rafRef
          /\ Cleanup(Sched).rafRef = Null
          /\ Cleanup(Sched).roRef = Null
          /\ Cleanup(Sched).frames = {}
          /\ Cleanup(Sched).observers = {}
          /\ ~mounted => rafRef = Null /\ roRef = Null /\ observers = {})
    /\ [][Frame => rafRef' = Null /\ frames' = {} /\ drawn' # <<>>]_vars
    /\ [][Unmount => /\ rafRef' = Null /\ roRef' = Null
                     /\ frames' = {} /\ observers' = {}]_vars

\* C15 witness: a draw() ran, the effect was cleaned up and run again, and
\* the one frame outstanding is the one rafRef names.
C15_Witness_FrameAfterRerun ==
    /\ mounted
    /\ gen >= 2
    /\ drawn # <<>>
    /\ rafRef = nextHandle - 1
    /\ frames = {[h |-> rafRef, g |-> gen]}
    /\ resizes = 0

====
